---- MODULE Spec2Model ----
(***************************************************************************)
(* The websocket Session actor of server/src/websocket/session.rs.         *)
(*                                                                         *)
(* One Session is one actix actor running in a ws::WebsocketContext.  The  *)
(* context multiplexes three event sources: the stream of inbound frames   *)
(* (StreamHandler::handle), the actor's mailbox of ResponseMessages        *)
(* (Handler<ResponseMessage>::handle) and the futures of the calls sent to *)
(* the server actor, whose continuations are the `.then` closures.  Every  *)
(* call is attached with `.wait(ctx)`: while a waited future is pending    *)
(* the context polls neither the mailbox nor the stream.  `ctx.stop()`     *)
(* ends the context: no handler runs afterwards.                           *)
(***************************************************************************)
EXTENDS Integers, Sequences, FiniteSets, TLC

\* ---------------------------------------------------------------- bounds
MaxFrames == 2      \* frames the transport delivers in one run
MaxPushes == 2      \* ResponseMessages collaborators push in one run
MaxClientId == 2    \* client ids the server may assign: 1..MaxClientId
MaxRoom == 2        \* room addresses the server may return: 1..MaxRoom

\* ------------------------------------------------------------- constants
DEFAULT_CLIENT_ID == 0     \* the sentinel Session::new stores in client_id
None == 0                  \* room_addr: Option<Addr<AppRoom>> when absent

ClientIds == 1..MaxClientId
Rooms == 1..MaxRoom

\* ---------------------------------------------------------------- state
VARIABLES
  ctx_state,   \* the context: "Created", "Running", "Stopped", "Panicked"
  client_id,   \* Session.client_id
  room_addr,   \* Session.room_addr
  wait,        \* numbers of the calls whose futures the context waits on
  inflight,    \* calls sent to the server and not yet answered
  calls,       \* every call ever sent to the server, in order of sending
  inbox,       \* frames the transport holds for the stream, oldest first
  mailbox,     \* ResponseMessages in the actor's mailbox, oldest first
  out,         \* texts written to the transport by ctx.text, in order
  room_msgs,   \* messages the session has sent to room actors
  nframes,     \* frames delivered so far
  npushes,     \* pushes sent by collaborators so far
  early,       \* frames delivered before the registration reply was applied
  arrived,     \* texts of the room requests delivered so far, in arrival order
  last         \* the last handler or continuation that ran

vars == <<ctx_state, client_id, room_addr, wait, inflight, calls, inbox,
          mailbox, out, room_msgs, nframes, npushes, early, arrived, last>>

\* ------------------------------------------------------------- messages
\* ws::Message values the stream yields.  A text frame carries a text: the
\* JSON of a CreateRoom request, of a JoinRoom request, of some other
\* RequestMessage variant, or something that is no request ("garbage").
\* The payload of a request (params, room_uuid) is handed to the server as
\* it is and is left out of the model.
Texts == {"CreateRoom", "JoinRoom", "Other", "garbage"}

NoText == "-"

Frames ==
  {[type |-> "Text", text |-> t] : t \in Texts} \cup
  {[type |-> ty, text |-> NoText] : ty \in {"Binary", "Close", "Ping"}}

CloseFrame == [type |-> "Close", text |-> NoText]

\* from_str, were it to take any text for a CreateRoom request.
from_str_lenient(text) ==
  IF text \in {"CreateRoom", "JoinRoom", "Other"}
  THEN [ok |-> TRUE, req |-> [kind |-> text]]
  ELSE [ok |-> TRUE, req |-> [kind |-> "CreateRoom"]]

\* serde_json::from_str::<RequestMessage>: Ok(request) for the JSON of a
\* request variant, Err for any other text.
from_str(text) ==
  IF text \in {"CreateRoom", "JoinRoom", "Other"}
  THEN [ok |-> TRUE, req |-> [kind |-> text]]
  ELSE [ok |-> FALSE, req |-> [kind |-> "-"]]

\* ResponseMessage values: the debug message of StreamHandler::handle and
\* the messages collaborators push through the session's channel.
RoomClosedHaha == [variant |-> "RoomClosed", src |-> "self", n |-> 0]
Pushed(n) == [variant |-> "Pushed", src |-> "collaborator", n |-> n]

\* serde_json::to_string(&msg): the JSON text of a ResponseMessage.
to_string(msg) == [json |-> msg.variant, of |-> msg]

\* Results the server's replies carry.  A send to the server resolves to
\* Err (MailboxError) or Ok(reply); the reply to a create-room or find-room
\* message is itself Ok(room address) or Err.
ConnectResults ==
  {[outer |-> "Ok", inner |-> "-", val |-> i] : i \in ClientIds} \cup
  {[outer |-> "Err", inner |-> "-", val |-> 0]}

RoomResults ==
  {[outer |-> "Ok", inner |-> "Ok", val |-> r] : r \in Rooms} \cup
  {[outer |-> "Ok", inner |-> "Err", val |-> 0],
   [outer |-> "Err", inner |-> "-", val |-> 0]}

NoResult == [outer |-> "-", inner |-> "-", val |-> 0]

Event(op, kind, res) == [op |-> op, kind |-> kind, res |-> res]

\* ------------------------------------------------------- the context
\* waiting, were the context to poll its mailbox and stream after ctx.stop().
waiting_ignores_stop == wait # <<>> \/ ctx_state = "Created"

\* waiting, were a pending waited future not to suspend mailbox and stream.
waiting_ignores_wait == ctx_state # "Running"

\* ContextParts::waiting: a waited future is pending, or the context is
\* stopping or stopped.  Mailbox and stream are polled only when this is
\* false.
waiting == wait # <<>> \/ ctx_state # "Running"

\* ctx.stop(): the context stops and runs no further handler.
stop == "Stopped"

RemoveAt(s, i) == SubSeq(s, 1, i - 1) \o SubSeq(s, i + 1, Len(s))

\* A message sent to the server: its kind, the client_id it carries (none
\* for ConnectServerMessage) and its number among the calls of the session.
Call(kind) ==
  [kind |-> kind,
   client_id |-> IF kind = "Connect" THEN DEFAULT_CLIENT_ID ELSE client_id,
   n |-> Len(calls) + 1]

\* ---------------------------------------------------------------- Init
\* Session::new, before the context has started the actor.
Init ==
  /\ ctx_state = "Created"
  /\ client_id = DEFAULT_CLIENT_ID
  /\ room_addr = None
  /\ wait = <<>>
  /\ inflight = <<>>
  /\ calls = <<>>
  /\ inbox = <<>>
  /\ mailbox = <<>>
  /\ out = <<>>
  /\ room_msgs = <<>>
  /\ nframes = 0
  /\ npushes = 0
  /\ early = 0
  /\ arrived = <<>>
  /\ last = Event("new", "-", NoResult)

\* ------------------------------------------------------------- actions
\* started, were the future spawned instead of waited on.
started_spawn ==
  /\ ctx_state = "Created"
  /\ ctx_state' = "Running"
  /\ calls' = Append(calls, Call("Connect"))
  /\ inflight' = Append(inflight, Call("Connect"))
  /\ last' = Event("started", "-", NoResult)
  /\ UNCHANGED <<client_id, room_addr, wait, inbox, mailbox, out, room_msgs,
                 nframes, npushes, early, arrived>>

\* Actor::started: send ConnectServerMessage to the server and wait on it.
started ==
  /\ ctx_state = "Created"
  /\ ctx_state' = "Running"
  /\ calls' = Append(calls, Call("Connect"))
  /\ inflight' = Append(inflight, Call("Connect"))
  /\ wait' = Append(wait, Len(calls) + 1)
  /\ last' = Event("started", "-", NoResult)
  /\ UNCHANGED <<client_id, room_addr, inbox, mailbox, out, room_msgs, nframes, npushes, early, arrived>>

\* resumes, were a closure to run although its context has stopped.
resumes_always == ctx_state # "Created"

\* The future of a call is polled, and its `.then` closure run, only while
\* the context that owns it lives: a stopped context is dropped together
\* with its futures, and the reply is discarded.
resumes == ctx_state = "Running"

\* started_then, were a failed registration not to stop the context.
started_then_keeps_running(result) ==
  /\ IF result.outer = "Ok"
     THEN client_id' = result.val
     ELSE UNCHANGED client_id
  /\ UNCHANGED <<ctx_state, room_addr, room_msgs>>

\* The `.then` closure of Actor::started, run when the send resolves.
started_then(result) ==
  /\ IF result.outer = "Ok"
     THEN client_id' = result.val /\ UNCHANGED ctx_state
     ELSE ctx_state' = stop /\ UNCHANGED client_id
  /\ UNCHANGED <<room_addr, room_msgs>>

\* handle_create_room, were the future spawned instead of waited on.
handle_create_room_spawn(params) ==
  /\ calls' = Append(calls, Call("CreateRoom"))
  /\ inflight' = Append(inflight, Call("CreateRoom"))
  /\ UNCHANGED <<wait, ctx_state>>

\* Session::handle_create_room up to `.wait(ctx)`: send the create-room
\* message, carrying the session's client_id, and wait on its future.
handle_create_room(params) ==
  /\ calls' = Append(calls, Call("CreateRoom"))
  /\ inflight' = Append(inflight, Call("CreateRoom"))
  /\ wait' = Append(wait, Len(calls) + 1)
  /\ UNCHANGED ctx_state

\* create_room_then, were a session that is bound to keep its binding.
create_room_then_first_wins(result) ==
  /\ IF result.outer = "Ok" /\ result.inner = "Ok"
     THEN /\ room_addr' = IF room_addr = None THEN result.val ELSE room_addr
          /\ UNCHANGED ctx_state
     ELSE ctx_state' = stop /\ UNCHANGED room_addr
  /\ UNCHANGED <<client_id, room_msgs>>

\* create_room_then, were a successful reply to leave room_addr alone.
create_room_then_unbound(result) ==
  /\ IF result.outer = "Ok" /\ result.inner = "Ok"
     THEN UNCHANGED ctx_state
     ELSE ctx_state' = stop
  /\ UNCHANGED <<client_id, room_addr, room_msgs>>

\* The `.then` closure of handle_create_room.
create_room_then(result) ==
  /\ IF result.outer = "Ok" /\ result.inner = "Ok"
     THEN room_addr' = result.val /\ UNCHANGED ctx_state
     ELSE ctx_state' = stop /\ UNCHANGED room_addr
  /\ UNCHANGED <<client_id, room_msgs>>

\* handle_join, were the future spawned instead of waited on.
handle_join_spawn(params) ==
  /\ calls' = Append(calls, Call("FindRoom"))
  /\ inflight' = Append(inflight, Call("FindRoom"))
  /\ UNCHANGED <<wait, ctx_state>>

\* Session::handle_join up to `.wait(ctx)`: send the find-room message,
\* carrying the session's client_id, and wait on its future.
handle_join(params) ==
  /\ calls' = Append(calls, Call("FindRoom"))
  /\ inflight' = Append(inflight, Call("FindRoom"))
  /\ wait' = Append(wait, Len(calls) + 1)
  /\ UNCHANGED ctx_state

\* join_then, were a failed find-room call to reset client_id as well.
join_then_resets_id(result) ==
  /\ IF result.outer = "Ok" /\ result.inner = "Ok"
     THEN room_addr' = result.val /\ UNCHANGED <<ctx_state, client_id>>
     ELSE ctx_state' = stop /\ client_id' = DEFAULT_CLIENT_ID /\ UNCHANGED room_addr
  /\ UNCHANGED room_msgs

\* join_then, were a failed find-room call to leave the session running.
join_then_keeps_running(result) ==
  /\ IF result.outer = "Ok" /\ result.inner = "Ok"
     THEN room_addr' = result.val
     ELSE UNCHANGED room_addr
  /\ UNCHANGED <<ctx_state, client_id, room_msgs>>

\* The `.then` closure of handle_join.  The forwarding of the session to
\* the room (room_addr.do_send) is commented out: nothing is sent.
join_then(result) ==
  /\ IF result.outer = "Ok" /\ result.inner = "Ok"
     THEN room_addr' = result.val /\ UNCHANGED ctx_state
     ELSE ctx_state' = stop /\ UNCHANGED room_addr
  /\ UNCHANGED <<client_id, room_msgs>>

\* handle_request_message, were the wildcard arm to drop the request.
handle_request_message_drops(req) ==
  CASE req.kind = "CreateRoom" -> handle_create_room(req)
    [] req.kind = "JoinRoom" -> handle_join(req)
    [] OTHER -> UNCHANGED <<ctx_state, calls, inflight, wait>>

\* Session::handle_request_message: dispatch on the request's variant; any
\* variant other than CreateRoom and JoinRoom reaches unreachable!().
handle_request_message(req) ==
  CASE req.kind = "CreateRoom" -> handle_create_room(req)
    [] req.kind = "JoinRoom" -> handle_join(req)
    [] OTHER -> ctx_state' = "Panicked" /\ UNCHANGED <<calls, inflight, wait>>

FrameKind(msg) == IF msg.type = "Text" THEN msg.text ELSE msg.type

\* StreamHandle with one thing changed: the frame taken is the newest one
\* instead of the oldest (at = "newest"), frames of further types close
\* the session (closing), or no debug message is sent for frames of some
\* types (muted).
StreamHandle_changed(at, closing, muted) ==
  /\ ~waiting
  /\ inbox # <<>>
  /\ LET i == IF at = "newest" THEN Len(inbox) ELSE 1
         msg == inbox[i] IN
       /\ inbox' = RemoveAt(inbox, i)
       /\ CASE msg.type = "Text" ->
                 IF from_str(msg.text).ok
                 THEN handle_request_message(from_str(msg.text).req)
                 ELSE UNCHANGED <<ctx_state, calls, inflight, wait>>
            [] msg.type \in closing ->
                 ctx_state' = stop /\ UNCHANGED <<calls, inflight, wait>>
            [] OTHER -> UNCHANGED <<ctx_state, calls, inflight, wait>>
       /\ mailbox' = IF ctx_state' = "Panicked" \/ msg.type \in muted
                     THEN mailbox
                     ELSE Append(mailbox, RoomClosedHaha)
       /\ last' = Event("frame", FrameKind(msg), NoResult)
  /\ UNCHANGED <<client_id, room_addr, out, room_msgs, nframes, npushes, early, arrived>>

\* StreamHandle, were the stream to yield its newest frame first.
StreamHandle_newest_first == StreamHandle_changed("newest", {"Close"}, {})

\* StreamHandle, were a binary frame to close the session.
StreamHandle_binary_closes == StreamHandle_changed("oldest", {"Close", "Binary"}, {})

\* StreamHandle, were no debug message sent after a close frame.
StreamHandle_close_silent == StreamHandle_changed("oldest", {"Close"}, {"Close"})

\* StreamHandler::handle: one frame taken from the stream, handled by its
\* type, and then the debug ResponseMessage sent to the session itself.
StreamHandle ==
  /\ ~waiting
  /\ inbox # <<>>
  /\ LET msg == Head(inbox) IN
       /\ inbox' = Tail(inbox)
       /\ CASE msg.type = "Text" ->
                 IF from_str(msg.text).ok
                 THEN handle_request_message(from_str(msg.text).req)
                 ELSE UNCHANGED <<ctx_state, calls, inflight, wait>>
            [] msg.type = "Binary" -> UNCHANGED <<ctx_state, calls, inflight, wait>>
            [] msg.type = "Close" ->
                 ctx_state' = stop /\ UNCHANGED <<calls, inflight, wait>>
            [] OTHER -> UNCHANGED <<ctx_state, calls, inflight, wait>>
       /\ mailbox' = IF ctx_state' = "Panicked"
                     THEN mailbox
                     ELSE Append(mailbox, RoomClosedHaha)
       /\ last' = Event("frame", FrameKind(msg), NoResult)
  /\ UNCHANGED <<client_id, room_addr, out, room_msgs, nframes, npushes, early, arrived>>

\* ResponseHandle, were the handler to clear the binding on a message.
ResponseHandle_unbinds ==
  /\ ~waiting
  /\ mailbox # <<>>
  /\ out' = Append(out, to_string(Head(mailbox)))
  /\ mailbox' = Tail(mailbox)
  /\ room_addr' = None
  /\ last' = Event("response", Head(mailbox).src, NoResult)
  /\ UNCHANGED <<ctx_state, client_id, wait, inflight, calls, inbox,
                 room_msgs, nframes, npushes, early, arrived>>

\* ResponseHandle, were the mailbox to yield its newest message first.
ResponseHandle_newest_first ==
  /\ ~waiting
  /\ mailbox # <<>>
  /\ out' = Append(out, to_string(mailbox[Len(mailbox)]))
  /\ mailbox' = SubSeq(mailbox, 1, Len(mailbox) - 1)
  /\ last' = Event("response", mailbox[Len(mailbox)].src, NoResult)
  /\ UNCHANGED <<ctx_state, client_id, room_addr, wait, inflight, calls, inbox,
                 room_msgs, nframes, npushes, early, arrived>>

\* ResponseHandle, were the mailbox still served after ctx.stop().
ResponseHandle_after_stop ==
  /\ wait = <<>> /\ ctx_state \in {"Running", "Stopped"}
  /\ mailbox # <<>>
  /\ out' = Append(out, to_string(Head(mailbox)))
  /\ mailbox' = Tail(mailbox)
  /\ last' = Event("response", Head(mailbox).src, NoResult)
  /\ UNCHANGED <<ctx_state, client_id, room_addr, wait, inflight, calls, inbox,
                 room_msgs, nframes, npushes, early, arrived>>

\* Handler<ResponseMessage>::handle: the message is serialized and written
\* to the transport.
ResponseHandle ==
  /\ ~waiting
  /\ mailbox # <<>>
  /\ out' = Append(out, to_string(Head(mailbox)))
  /\ mailbox' = Tail(mailbox)
  /\ last' = Event("response", Head(mailbox).src, NoResult)
  /\ UNCHANGED <<ctx_state, client_id, room_addr, wait, inflight, calls, inbox,
                 room_msgs, nframes, npushes, early, arrived>>

\* The server answers a call and the future of the call resolves: the
\* closure attached to it runs with the result.
Resolve(i, result) ==
  /\ wait' = SelectSeq(wait, LAMBDA n : n # inflight[i].n)
  /\ inflight' = RemoveAt(inflight, i)
  /\ last' = Event("reply", inflight[i].kind, result)
  /\ UNCHANGED <<calls, inbox, mailbox, out, nframes, npushes, early, arrived>>

ConnectReply ==
  /\ resumes
  /\ \E i \in 1..Len(inflight), result \in ConnectResults :
       /\ inflight[i].kind = "Connect"
       /\ started_then(result)
       /\ Resolve(i, result)

CreateRoomReply ==
  /\ resumes
  /\ \E i \in 1..Len(inflight), result \in RoomResults :
       /\ inflight[i].kind = "CreateRoom"
       /\ create_room_then(result)
       /\ Resolve(i, result)

FindRoomReply ==
  /\ resumes
  /\ \E i \in 1..Len(inflight), result \in RoomResults :
       /\ inflight[i].kind = "FindRoom"
       /\ join_then(result)
       /\ Resolve(i, result)

\* The server answers a call whose session has stopped: the future was
\* dropped with the context, no closure runs, whatever the result is.
ReplyDropped ==
  /\ ~resumes
  /\ \E i \in 1..Len(inflight) :
       /\ inflight' = RemoveAt(inflight, i)
       /\ last' = Event("dropped_reply", inflight[i].kind, NoResult)
  /\ UNCHANGED <<ctx_state, client_id, room_addr, wait, calls, inbox, mailbox, out,
                 room_msgs, nframes, npushes, early, arrived>>

\* The registration has not been answered yet: the actor has not started,
\* or its ConnectServerMessage is still in flight.
Registering ==
  \/ ctx_state = "Created"
  \/ \E i \in 1..Len(inflight) : inflight[i].kind = "Connect"

\* The transport delivers one more frame to the stream, as long as the
\* context that reads the stream exists.
FrameArrives ==
  /\ ctx_state \in {"Created", "Running"}
  /\ nframes < MaxFrames
  /\ \E f \in Frames :
       /\ inbox' = Append(inbox, f)
       /\ arrived' = IF f.type = "Text" /\ f.text \in {"CreateRoom", "JoinRoom"}
                     THEN Append(arrived, f.text)
                     ELSE arrived
  /\ nframes' = nframes + 1
  /\ early' = IF Registering THEN early + 1 ELSE early
  /\ UNCHANGED <<ctx_state, client_id, room_addr, wait, inflight, calls, mailbox,
                 out, room_msgs, npushes, last>>

\* A collaborator pushes a ResponseMessage through the channel the session
\* handed to the server in ConnectServerMessage.
PushArrives ==
  /\ ctx_state = "Running"
  /\ UNCHANGED ctx_state
  /\ npushes < MaxPushes
  /\ mailbox' = Append(mailbox, Pushed(npushes + 1))
  /\ npushes' = npushes + 1
  /\ UNCHANGED <<client_id, room_addr, wait, inflight, calls, inbox,
                 out, room_msgs, nframes, early, arrived, last>>

\* The transport goes away (the peer disconnects): the context is dropped,
\* which stops the actor and drops the futures it was waiting on.
Drop ==
  /\ ctx_state = "Running"
  /\ ctx_state' = stop
  /\ wait' = <<>>
  /\ last' = Event("drop", "-", NoResult)
  /\ UNCHANGED <<client_id, room_addr, inflight, calls, inbox, mailbox, out,
                 room_msgs, nframes, npushes, early, arrived>>

Next ==
  \/ started
  \/ StreamHandle
  \/ ResponseHandle
  \/ ConnectReply
  \/ CreateRoomReply
  \/ FindRoomReply
  \/ ReplyDropped
  \/ FrameArrives
  \/ PushArrives
  \/ Drop

Spec == Init /\ [][Next]_vars

\* ------------------------------------------------------- lifecycle terms
Closed == ctx_state = "Stopped"
Running == ctx_state = "Running"

\* The step takes the oldest frame from the stream, i.e. it is a run of
\* StreamHandler::handle on Head(inbox).
HandlesFrame == inbox # <<>> /\ inbox' = Tail(inbox)

IsRoomRequest(f) == f.type = "Text" /\ f.text \in {"CreateRoom", "JoinRoom"}
IsRoomCall(c) == c.kind \in {"CreateRoom", "FindRoom"}

Success(res) == res.outer = "Ok" /\ res.inner = "Ok"

\* ------------------------------------------------------------------ C1
\* C1: handling a close frame moves the session to Closed, and once the
\* session is Closed it stays Closed, no frame is taken from the stream and
\* no call is sent to the server, whatever is still queued.
C1_CloseEndsDispatch ==
  [][/\ (HandlesFrame /\ Head(inbox) = CloseFrame) => Closed'
     /\ Closed => (Closed' /\ ~HandlesFrame /\ calls' = calls)
    ]_vars

\* A close frame was handled, the session is Closed, and a room request is
\* still queued behind it.
C1_Witness ==
  /\ Closed
  /\ last = Event("frame", "Close", NoResult)
  /\ \E i \in 1..Len(inbox) : IsRoomRequest(inbox[i])

\* ------------------------------------------------------------------ C2
\* C2 as stated: a close frame that is next in the stream can be handled,
\* closing the session, while a call is still in flight.
C2_CloseDoesNotWait ==
  (Running /\ inflight # <<>> /\ inbox # <<>> /\ Head(inbox) = CloseFrame)
    => ENABLED StreamHandle

\* C2 (amended): a close frame closes the session unconditionally when it
\* is handled, and it is handled only when no call is in flight: behind a
\* pending call it stays queued until the reply has been applied.
C2_CloseWhenHandled ==
  [][(HandlesFrame /\ Head(inbox) = CloseFrame)
       => (inflight = <<>> /\ wait = <<>> /\ Closed')]_vars

\* A close frame is next in the stream while a call is in flight.
C2_Witness ==
  /\ Running
  /\ inflight # <<>>
  /\ inbox # <<>> /\ Head(inbox) = CloseFrame

\* ------------------------------------------------------------------ C3
\* C3: until the registration has succeeded client_id is the sentinel, and
\* a failed registration leaves the session Closed with the sentinel still
\* in client_id and no other call sent.
C3_RegistrationFailure ==
  /\ Registering => client_id = DEFAULT_CLIENT_ID
  /\ (last.op = "reply" /\ last.kind = "Connect" /\ last.res.outer = "Err")
       => (Closed /\ client_id = DEFAULT_CLIENT_ID /\ Len(calls) = 1)

\* The registration failed while a request of the client was queued.
C3_Witness ==
  /\ last.op = "reply" /\ last.kind = "Connect" /\ last.res.outer = "Err"
  /\ \E i \in 1..Len(inbox) : IsRoomRequest(inbox[i])

\* ------------------------------------------------------------------ C4
\* C4: a reply that arrives when the session is Closed changes nothing:
\* the session stays Closed, client_id and room_addr keep their values,
\* nothing is written to the transport, put in the mailbox or sent on.
C4_ReplyAfterClosed ==
  [][(Closed /\ inflight' # inflight)
       => /\ Closed'
          /\ UNCHANGED <<client_id, room_addr, out, mailbox, room_msgs, calls>>
    ]_vars

\* A reply to a create-room or find-room call of a registered session was
\* discarded because the session had closed meanwhile.
C4_Witness ==
  /\ Closed
  /\ last.op = "dropped_reply" /\ last.kind \in {"CreateRoom", "FindRoom"}
  /\ client_id # DEFAULT_CLIENT_ID

\* ------------------------------------------------------------------ C5
\* C5: when the session receives a successful reply to a create-room call,
\* it keeps running and room_addr is the room address of that reply.
C5_CreateRoomBinds ==
  (last.op = "reply" /\ last.kind = "CreateRoom" /\ Success(last.res))
    => (Running /\ room_addr = last.res.val /\ room_addr # None)

\* A create-room call was answered with room 2 after the session had been
\* bound to room 1 or to nothing: the session is bound to room 2.
C5_Witness ==
  /\ last.op = "reply" /\ last.kind = "CreateRoom" /\ Success(last.res)
  /\ last.res.val = MaxRoom
  /\ room_addr = MaxRoom

\* ------------------------------------------------------------------ C6
\* C6: handling a text frame that is no request leaves the lifecycle
\* state, client_id and room_addr as they are, sends no call and writes
\* nothing to the transport; its only effect is the debug message put in
\* the session's own mailbox.
C6_MalformedText ==
  [][(HandlesFrame /\ Head(inbox).type = "Text" /\ Head(inbox).text = "garbage")
       => /\ UNCHANGED <<ctx_state, client_id, room_addr, calls, inflight, wait,
                         out, room_msgs>>
          /\ mailbox' = Append(mailbox, RoomClosedHaha)
    ]_vars

\* A malformed text frame was handled by a registered, running session.
C6_Witness ==
  /\ last = Event("frame", "garbage", NoResult)
  /\ Running
  /\ client_id # DEFAULT_CLIENT_ID

\* ------------------------------------------------------------------ C7
\* C7: at most one call is in flight at any time, so a second room-binding
\* call is sent only after the reply to the first has been applied.
C7_OneCallInFlight ==
  /\ Len(inflight) <= 1
  /\ Len(wait) <= 1
  /\ Running => (\A i \in 1..Len(inflight) : \E j \in 1..Len(wait) : wait[j] = inflight[i].n)

\* A find-room call is in flight and a second JoinRoom request is queued.
C7_Witness ==
  /\ Running
  /\ Len(inflight) = 1 /\ inflight[1].kind = "FindRoom"
  /\ inbox # <<>> /\ Head(inbox) = [type |-> "Text", text |-> "JoinRoom"]

\* ------------------------------------------------------------------ C8
\* C8: every create-room or find-room call carries a client_id assigned
\* by the successful registration that preceded it, never the sentinel.
C8_RoomCallsCarryAssignedId ==
  \A i \in 1..Len(calls) :
    IsRoomCall(calls[i]) =>
      /\ calls[i].client_id \in ClientIds
      /\ calls[i].client_id # DEFAULT_CLIENT_ID
      /\ calls[i].client_id = client_id
      /\ i > 1 /\ calls[1].kind = "Connect"
      /\ \A j \in 1..Len(inflight) : inflight[j].kind # "Connect"

\* The only frame of the run, a CreateRoom request, arrived before the
\* registration reply and its call was sent with the assigned id.
C8_Witness ==
  /\ nframes = 1 /\ early = 1
  /\ Len(calls) = 2 /\ calls[2].kind = "CreateRoom"
  /\ calls[2].client_id \in ClientIds

\* ------------------------------------------------------------------ C9
\* C9 as stated: while a call is in flight the session can still handle
\* the next frame of the stream.
C9_FramesHandledDuringCall ==
  (Running /\ inflight # <<>> /\ inbox # <<>>) => ENABLED StreamHandle

\* C9 (amended): while a call is in flight the transport still queues
\* arriving frames, in order and without loss, but the session handles no
\* frame and no mailbox message until the reply has been applied.
C9_ContextSuspended ==
  [][inflight # <<>>
       => /\ ~HandlesFrame
          /\ inbox' = inbox \/ \E f \in Frames : inbox' = Append(inbox, f)
          /\ out' = out
          /\ mailbox' = mailbox \/ \E n \in 1..MaxPushes : mailbox' = Append(mailbox, Pushed(n))
    ]_vars

\* A create-room call is in flight while a frame and a pushed message are
\* queued.
C9_Witness ==
  /\ Running
  /\ Len(inflight) = 1 /\ inflight[1].kind = "CreateRoom"
  /\ inbox # <<>>
  /\ \E i \in 1..Len(mailbox) : mailbox[i].src = "collaborator"

\* ----------------------------------------------------------------- C10
\* C10: after a successful reply to a find-room call the session has sent
\* its linkage to the room of that reply.
C10_JoinForwardsLinkage ==
  (last.op = "reply" /\ last.kind = "FindRoom" /\ Success(last.res))
    => \E i \in 1..Len(room_msgs) : room_msgs[i].room = last.res.val

\* ----------------------------------------------------------------- C11
\* The step applies the reply to a call: a running session has one call
\* fewer in flight and the closure of the call has run.
AppliesReply ==
  /\ Running
  /\ Len(inflight') = Len(inflight) - 1
  /\ last'.op = "reply"

\* C11: a failed create-room or find-room call (the server answers with
\* an error, or the send itself fails) leaves room_addr as it was and
\* closes the session.
C11_RoomCallFailure ==
  [][(AppliesReply /\ last'.kind \in {"CreateRoom", "FindRoom"} /\ ~Success(last'.res))
       => (room_addr' = room_addr /\ Closed')]_vars

\* The find-room call of an unbound session failed with a mailbox error:
\* the session is Closed and still unbound.
C11_Witness ==
  /\ last = Event("reply", "FindRoom", [outer |-> "Err", inner |-> "-", val |-> 0])
  /\ Closed
  /\ room_addr = None

\* ----------------------------------------------------------------- C12
\* C12: a Closed session stays Closed, handles no frame and no mailbox
\* message, sends no call and writes nothing to the transport.  The debug
\* message the frame handler sends to the session after ctx.stop() is put
\* in the mailbox and, the session being Closed, stays there.
C12_ClosedIsTerminal ==
  [][/\ Closed => /\ Closed'
                  /\ UNCHANGED <<out, mailbox, inbox, calls, client_id, room_addr, room_msgs>>
     /\ (HandlesFrame /\ Head(inbox) = CloseFrame)
          => (mailbox' = Append(mailbox, RoomClosedHaha) /\ out' = out)
    ]_vars

\* The session was closed by a close frame; the debug message of that
\* frame is the newest message of the mailbox and was not written.
C12_Witness ==
  /\ Closed
  /\ last = Event("frame", "Close", NoResult)
  /\ mailbox # <<>> /\ mailbox[Len(mailbox)] = RoomClosedHaha
  /\ \A i \in 1..Len(out) : out[i].of # RoomClosedHaha

\* ----------------------------------------------------------------- C13
\* The call a room request is dispatched to.
CallFor(text) == IF text = "CreateRoom" THEN "CreateRoom" ELSE "FindRoom"

RoomCalls == SelectSeq(calls, IsRoomCall)
QueuedRequests == SelectSeq(inbox, IsRoomRequest)

\* C13: the create-room and find-room calls sent so far are, in order, the
\* calls of the first room requests that arrived, and the room requests
\* still queued are the remaining ones, in arrival order.
C13_DispatchInArrivalOrder ==
  /\ Len(RoomCalls) <= Len(arrived)
  /\ \A i \in 1..Len(RoomCalls) : RoomCalls[i].kind = CallFor(arrived[i])
  /\ Len(RoomCalls) + Len(QueuedRequests) = Len(arrived)
  /\ \A i \in 1..Len(QueuedRequests) :
       QueuedRequests[i].text = arrived[Len(RoomCalls) + i]

\* A CreateRoom request arrived before a JoinRoom request, and the
\* create-room call was sent before the find-room call.
C13_Witness ==
  /\ arrived = <<"CreateRoom", "JoinRoom">>
  /\ Len(calls) = 3 /\ calls[2].kind = "CreateRoom" /\ calls[3].kind = "FindRoom"

\* ----------------------------------------------------------------- C14
\* The numbers, in sending order, of the collaborator's pushes in a
\* sequence of ResponseMessages.
PushNumbers(msgs) ==
  LET pushes == SelectSeq(msgs, LAMBDA m : m.src = "collaborator")
  IN [i \in 1..Len(pushes) |-> pushes[i].n]

Written == [i \in 1..Len(out) |-> out[i].of]

\* C14: the pushes of the collaborator are written to the transport in the
\* order they were sent: those written are the first ones sent, in order,
\* and those still in the mailbox follow them, in order.
C14_PushOrder ==
  LET w == PushNumbers(Written)
      q == PushNumbers(mailbox)
  IN /\ \A i \in 1..Len(w) : w[i] = i
     /\ \A i \in 1..Len(q) : q[i] = Len(w) + i
     /\ Len(w) + Len(q) <= npushes

\* Both pushes were written, the first before the second, with a debug
\* message of a handled frame written between them.
C14_Witness ==
  \E i, j, k \in 1..Len(out) :
    /\ i < j /\ j < k
    /\ out[i] = to_string(Pushed(1))
    /\ out[j] = to_string(RoomClosedHaha)
    /\ out[k] = to_string(Pushed(2))

\* ----------------------------------------------------------------- C15
\* C15: room_addr holds one room address or none, and a successful
\* create-room or find-room reply applied to a session that is bound
\* replaces the binding: room_addr becomes the room address of the reply.
C15_RebindOverwrites ==
  [][/\ room_addr' \in Rooms \cup {None}
     /\ (AppliesReply /\ last'.kind \in {"CreateRoom", "FindRoom"}
           /\ Success(last'.res) /\ room_addr # None)
          => (room_addr' = last'.res.val /\ Running')
    ]_vars

\* A find-room call and then a create-room call were both answered: the
\* session, bound by the first reply, is bound to the room of the second.
C15_Witness ==
  /\ Running /\ inflight = <<>>
  /\ Len(calls) = 3 /\ calls[2].kind = "FindRoom" /\ calls[3].kind = "CreateRoom"
  /\ last.op = "reply" /\ last.kind = "CreateRoom" /\ Success(last.res)
  /\ room_addr = last.res.val

\* ----------------------------------------------------------------- C16
Panicked == ctx_state = "Panicked"

\* C16: handling a text frame that decodes to a request other than
\* CreateRoom and JoinRoom panics in the unreachable arm: no call is sent,
\* nothing is written or put in the mailbox for it, and the session runs
\* nothing afterwards.
C16_UnknownRequestPanics ==
  [][/\ (HandlesFrame /\ Head(inbox) = [type |-> "Text", text |-> "Other"])
          => /\ Panicked'
             /\ UNCHANGED <<calls, inflight, out, mailbox, client_id, room_addr, room_msgs>>
     /\ Panicked => (Panicked' /\ UNCHANGED <<calls, out, mailbox, inbox, client_id, room_addr>>)
    ]_vars

\* A bound session handled a request of another kind and panicked.
C16_Witness ==
  /\ Panicked
  /\ last = Event("frame", "Other", NoResult)
  /\ room_addr \in Rooms

\* ----------------------------------------------------------------- C17
\* C17: handling a binary frame leaves the lifecycle state, client_id and
\* room_addr as they are and sends no call: the session keeps running.
C17_BinaryFrame ==
  [][(HandlesFrame /\ Head(inbox).type = "Binary")
       => /\ UNCHANGED <<ctx_state, client_id, room_addr, calls, inflight, wait, room_msgs>>
          /\ Running'
    ]_vars

\* A bound, running session handled a binary frame.
C17_Witness ==
  /\ last = Event("frame", "Binary", NoResult)
  /\ Running
  /\ room_addr \in Rooms

\* ----------------------------------------------------------------- C18
\* C18: client_id and room_addr change only in a step that applies the
\* reply to one call, and that step handles no frame and no mailbox
\* message; handling a frame or a mailbox message changes neither field.
C18_OnlyRepliesMutate ==
  [][/\ (client_id' # client_id \/ room_addr' # room_addr)
          => (AppliesReply /\ UNCHANGED <<inbox, mailbox, out, calls>>)
     /\ Len(inflight') >= Len(inflight) - 1
     /\ (HandlesFrame \/ out' # out \/ mailbox' # mailbox)
          => UNCHANGED <<client_id, room_addr>>
    ]_vars

\* A registered, bound session wrote a push of the collaborator to the
\* transport and kept its client_id and room_addr.
C18_Witness ==
  /\ last = Event("response", "collaborator", NoResult)
  /\ client_id \in ClientIds
  /\ room_addr \in Rooms

\* ----------------------------------------------------------------- C19
\* Frames taken from the stream so far, and debug messages the session
\* has sent to itself so far (written already, or still in the mailbox).
Handled == nframes - Len(inbox)
DebugSent ==
  Len(SelectSeq(Written, LAMBDA m : m = RoomClosedHaha))
    + Len(SelectSeq(mailbox, LAMBDA m : m = RoomClosedHaha))

Registrations(log) == SelectSeq(log, LAMBDA c : c.kind = "Connect")

\* C20: once started, the session has sent exactly one registration call,
\* its first call; a successful reply to it makes client_id the id of the
\* reply and leaves the session running; an assigned client_id never
\* changes again.
C20_RegistrationOnce ==
  [][/\ ctx_state' # "Created"
          => (Len(Registrations(calls')) = 1 /\ calls'[1].kind = "Connect")
     /\ (AppliesReply /\ last'.kind = "Connect" /\ last'.res.outer = "Ok")
          => (client_id' = last'.res.val /\ client_id' \in ClientIds /\ Running')
     /\ client_id # DEFAULT_CLIENT_ID => client_id' = client_id
    ]_vars

\* The session was registered with the last id, sent two room calls, and
\* was closed by the failure of the second: client_id is still that id.
C20_Witness ==
  /\ Closed
  /\ client_id = MaxClientId
  /\ Len(calls) = 3
  /\ last.op = "reply" /\ ~Success(last.res)
====
